---- MODULE Spec2Model ----
(***************************************************************************)
(* Model of palworld-guild-save-fix: the binary codecs of group_guild.rs,  *)
(* character_save_parameter.rs and the container codec of sav.rs.          *)
(*                                                                         *)
(* Bytes are integers 0..255 and byte strings are sequences of them.  A    *)
(* Rust String is the sequence of its Unicode scalar values; a Uuid is the *)
(* sequence of its 16 in-memory bytes.  A winnow PResult is a record       *)
(* [ok |-> TRUE, val, rest] (rest: the unconsumed input) or                *)
(* [ok |-> FALSE, err], err being "Incomplete" (a Partial stream ran out), *)
(* "Backtrack" (a literal did not match) or "Panic" (the process aborts).  *)
(*                                                                         *)
(* A 32-bit integer, signed or unsigned, is held as its two's-complement   *)
(* pattern in -2^31..2^31-1: a u32 of 2^31 or more is the negative number  *)
(* with the same 32 bits.  No stream of the model is 2^31 bytes long, so   *)
(* such a count or length always exceeds what the input holds.  A u64 is   *)
(* the pair <<low word, high word>> of two such patterns.                  *)
(***************************************************************************)
EXTENDS Integers, Sequences, FiniteSets, TLC

VARIABLES scenario, pc, input, mid, output, overflow_checks,
          disk, opened, outcome, level_save, player_saves, groups,
          character_save_parameter_map, player_individual_ids,
          player_without_character_save, new_character_saves

\* what main holds in memory
main_locals ==
    <<level_save, player_saves, groups, character_save_parameter_map,
      player_individual_ids, player_without_character_save, new_character_saves>>

\* the state of a run of main: Level.sav on disk, whether it was created for
\* writing, how the run ended, and main's locals
main_vars == <<disk, opened, outcome, main_locals>>

vars == <<scenario, pc, input, mid, output, overflow_checks, main_vars>>

(***************************************************************************)
(* Bounds of the model.                                                    *)
(***************************************************************************)
MaxUuid == 3
MaxStrLen == 2
MaxArr == 2
MaxProps == 2

(***************************************************************************)
(* Integer and byte primitives.                                            *)
(***************************************************************************)
Drop(s, n) == SubSeq(s, n + 1, Len(s))

Take(s, n) == SubSeq(s, 1, n)

RECURSIVE Flatten(_)
Flatten(ss) == IF ss = <<>> THEN <<>> ELSE Head(ss) \o Flatten(Tail(ss))

Fail(e) == [ok |-> FALSE, err |-> e]

Done(v, r) == [ok |-> TRUE, val |-> v, rest |-> r]

I32Min == -2147483647 - 1

\* u32::to_le_bytes / i32::to_le_bytes of a 32-bit pattern (\div rounds down)
to_le_bytes32(n) ==
    <<n % 256, (n \div 256) % 256, (n \div 65536) % 256, (n \div 16777216) % 256>>

\* u64::to_le_bytes
to_le_bytes64(n) == to_le_bytes32(n[1]) \o to_le_bytes32(n[2])

\* the 32-bit pattern of four little-endian bytes
FromLe(b) ==
    b[1] + 256 * b[2] + 65536 * b[3]
    + 16777216 * (IF b[4] >= 128 THEN b[4] - 256 ELSE b[4])


\* winnow take(n) on a Partial stream
take(i, n) ==
    IF Len(i) < n THEN Fail("Incomplete") ELSE Done(Take(i, n), Drop(i, n))

\* take(n * k) for a usize n held as a 32-bit pattern, the product never formed:
\* more units than the input has bytes cannot be taken
take_scaled(i, n, k) ==
    IF n < 0 \/ n > Len(i) THEN Fail("Incomplete") ELSE take(i, n * k)

\* a literal on a Partial stream
literal(i, t) ==
    IF Len(i) >= Len(t)
    THEN IF Take(i, Len(t)) = t THEN Done(t, Drop(i, Len(t))) ELSE Fail("Backtrack")
    ELSE IF Take(t, Len(i)) = i THEN Fail("Incomplete") ELSE Fail("Backtrack")

le_u8(i) == IF Len(i) < 1 THEN Fail("Incomplete") ELSE Done(i[1], Drop(i, 1))

le_u32(i) == IF Len(i) < 4 THEN Fail("Incomplete") ELSE Done(FromLe(i), Drop(i, 4))

le_i32(i) == IF Len(i) < 4 THEN Fail("Incomplete") ELSE Done(FromLe(i), Drop(i, 4))

le_u64(i) ==
    IF Len(i) < 8 THEN Fail("Incomplete")
    ELSE Done(<<FromLe(i), FromLe(Drop(i, 4))>>, Drop(i, 8))

(***************************************************************************)
(* Uuid: the wire permutation.                                             *)
(***************************************************************************)
\* the index list of read_uuid, 1-based: out[k] = b[UuidPerm[k]]
UuidPerm == <<4, 3, 2, 1, 8, 7, 6, 5, 12, 11, 10, 9, 16, 15, 14, 13>>

\* a plausible slip: a plain big-endian/little-endian GUID flip (4-2-2-8)
UuidPermGuidFlip == <<4, 3, 2, 1, 6, 5, 8, 7, 9, 10, 11, 12, 13, 14, 15, 16>>

\* the index list of write_uuid
UuidPermWrite == <<4, 3, 2, 1, 8, 7, 6, 5, 12, 11, 10, 9, 16, 15, 14, 13>>

Permute(b, p) ==
    << b[p[1]], b[p[2]], b[p[3]], b[p[4]], b[p[5]], b[p[6]], b[p[7]], b[p[8]],
       b[p[9]], b[p[10]], b[p[11]], b[p[12]], b[p[13]], b[p[14]], b[p[15]], b[p[16]] >>

read_uuid(i) ==
    LET t == take(i, 16)
    IN  IF t.ok THEN Done(Permute(t.val, UuidPerm), t.rest) ELSE t

write_uuid(guid) == Permute(guid, UuidPermWrite)

(***************************************************************************)
(* Text: UTF-8 and UTF-16 as the Rust standard library computes them.      *)
(***************************************************************************)
ReplacementChar == 65533

\* char::len_utf8
len_utf8(c) == IF c < 128 THEN 1 ELSE IF c < 2048 THEN 2 ELSE IF c < 65536 THEN 3 ELSE 4

\* char::len_utf16
len_utf16(c) == IF c < 65536 THEN 1 ELSE 2

\* the UTF-8 bytes of one scalar value
EncodeUtf8Char(c) ==
    IF c < 128 THEN <<c>>
    ELSE IF c < 2048 THEN <<192 + (c \div 64), 128 + (c % 64)>>
    ELSE IF c < 65536
         THEN <<224 + (c \div 4096), 128 + ((c \div 64) % 64), 128 + (c % 64)>>
         ELSE <<240 + (c \div 262144), 128 + ((c \div 4096) % 64),
                128 + ((c \div 64) % 64), 128 + (c % 64)>>

\* str::as_bytes
as_bytes(s) == Flatten([k \in 1..Len(s) |-> EncodeUtf8Char(s[k])])

\* str::len: the number of UTF-8 bytes
StrLen(s) == Len(as_bytes(s))

\* str::chars().count()
CharsCount(s) == Len(s)

\* the UTF-16 code units of one scalar value
EncodeUtf16Char(c) ==
    IF c < 65536 THEN <<c>>
    ELSE <<55296 + ((c - 65536) \div 1024), 56320 + ((c - 65536) % 1024)>>

\* str::encode_utf16
encode_utf16(s) == Flatten([k \in 1..Len(s) |-> EncodeUtf16Char(s[k])])

\* the bytes of a Vec<u16> seen through align_to::<u8> (little-endian target)
UnitsToBytes(u) == Flatten([k \in 1..Len(u) |-> <<u[k] % 256, u[k] \div 256>>])

\* s.chunks(2).map(u16::from_le_bytes)
BytesToUnits(b) == [k \in 1..(Len(b) \div 2) |-> b[2 * k - 1] + 256 * b[2 * k]]

IsCont(x) == x \in 128..191

\* one step of the lossy UTF-8 decoder: the bytes consumed and the char produced
Utf8Step(b) ==
    LET b0 == b[1]
        get(k) == IF k <= Len(b) THEN b[k] ELSE 0
        bad(n) == [n |-> n, c |-> ReplacementChar]
        ok3 == \/ b0 = 224 /\ get(2) \in 160..191
               \/ b0 \in 225..236 /\ get(2) \in 128..191
               \/ b0 = 237 /\ get(2) \in 128..159
               \/ b0 \in 238..239 /\ get(2) \in 128..191
        ok4 == \/ b0 = 240 /\ get(2) \in 144..191
               \/ b0 \in 241..243 /\ get(2) \in 128..191
               \/ b0 = 244 /\ get(2) \in 128..143
    IN  IF b0 < 128 THEN [n |-> 1, c |-> b0]
        ELSE IF b0 \in 194..223
        THEN IF IsCont(get(2))
             THEN [n |-> 2, c |-> (b0 - 192) * 64 + (get(2) - 128)]
             ELSE bad(1)
        ELSE IF b0 \in 224..239
        THEN IF ~ok3 THEN bad(1)
             ELSE IF ~IsCont(get(3)) THEN bad(2)
             ELSE [n |-> 3,
                   c |-> (b0 - 224) * 4096 + (get(2) - 128) * 64 + (get(3) - 128)]
        ELSE IF b0 \in 240..244
        THEN IF ~ok4 THEN bad(1)
             ELSE IF ~IsCont(get(3)) THEN bad(2)
             ELSE IF ~IsCont(get(4)) THEN bad(3)
             ELSE [n |-> 4,
                   c |-> (b0 - 240) * 262144 + (get(2) - 128) * 4096
                         + (get(3) - 128) * 64 + (get(4) - 128)]
        ELSE bad(1)

\* String::from_utf8_lossy
RECURSIVE from_utf8_lossy(_)
from_utf8_lossy(b) ==
    IF b = <<>> THEN <<>>
    ELSE LET r == Utf8Step(b) IN <<r.c>> \o from_utf8_lossy(Drop(b, r.n))

\* String::from_utf16_lossy
RECURSIVE from_utf16_lossy(_)
from_utf16_lossy(u) ==
    IF u = <<>> THEN <<>>
    ELSE IF u[1] \in 55296..56319 /\ Len(u) >= 2 /\ u[2] \in 56320..57343
    THEN <<65536 + (u[1] - 55296) * 1024 + (u[2] - 56320)>> \o from_utf16_lossy(Drop(u, 2))
    ELSE IF u[1] \in 55296..57343
    THEN <<ReplacementChar>> \o from_utf16_lossy(Drop(u, 1))
    ELSE <<u[1]>> \o from_utf16_lossy(Drop(u, 1))

(***************************************************************************)
(* FString.                                                                *)
(***************************************************************************)
\* `-len as usize` for len = i32::MIN.  With overflow checks the negation
\* panics.  Without, it wraps to i32::MIN, `as usize` sign-extends it and
\* (len - 1) * 2 wraps to a length (2^64 - 2^32 - 2 on a 64-bit target,
\* 2^32 - 2 on a 32-bit one) that no input holds.
ReadUnicodeOfMin(checks) == IF checks THEN Fail("Panic") ELSE Fail("Incomplete")

read_fstring(i, checks) ==
    LET l == le_i32(i)
    IN  IF ~l.ok THEN l
        ELSE IF l.val = 0 THEN Done(<<>>, l.rest)
        ELSE IF l.val < 0
        THEN IF l.val = I32Min THEN ReadUnicodeOfMin(checks)
             ELSE LET len == -l.val
                      t   == take_scaled(l.rest, len - 1, 2)
                  IN  IF ~t.ok THEN t
                      ELSE LET z == literal(t.rest, <<0, 0>>)
                           IN  IF ~z.ok THEN z
                               ELSE Done(from_utf16_lossy(BytesToUnits(t.val)), z.rest)
        ELSE LET len == l.val
                 t   == take(l.rest, len - 1)
             IN  IF ~t.ok THEN t
                 ELSE LET z == literal(t.rest, <<0>>)
                      IN  IF ~z.ok THEN z
                          ELSE Done(from_utf8_lossy(t.val), z.rest)

\* a plausible slip: "not ASCII" tested on the first character only
IsUnicodeFirstChar(s) == s # <<>> /\ len_utf8(s[1]) # 1

\* the unicode test of write_fstring
IsUnicode(s) == StrLen(s) # CharsCount(s)

write_fstring(s) ==
    IF IsUnicode(s)
    THEN LET aligned == UnitsToBytes(encode_utf16(s))
         IN  to_le_bytes32(-(Len(aligned) \div 2) - 1) \o aligned \o <<0, 0>>
    ELSE to_le_bytes32(StrLen(s) + 1) \o as_bytes(s) \o <<0>>

(***************************************************************************)
(* FDateTime, FPalInstanceId, FPalGuildPlayerInfo.                 *)
(***************************************************************************)
read_fdatetime(i) ==
    LET t == le_u64(i)
    IN  IF ~t.ok THEN t ELSE Done([Ticks |-> t.val], t.rest)

write_fdatetime(datetime) == to_le_bytes64(datetime.Ticks)

read_fpal_instance_id(i) ==
    LET a == read_uuid(i)
    IN  IF ~a.ok THEN a
        ELSE LET b == read_uuid(a.rest)
             IN  IF ~b.ok THEN b
                 ELSE Done([PlayerUId |-> a.val, InstanceUId |-> b.val], b.rest)

write_fpal_instance_id(instance_id) ==
    write_uuid(instance_id.PlayerUId) \o write_uuid(instance_id.InstanceUId)

read_fpal_guild_player_info(i, checks) ==
    LET a == read_uuid(i)
    IN  IF ~a.ok THEN a
        ELSE LET b == read_fdatetime(a.rest)
             IN  IF ~b.ok THEN b
                 ELSE LET c == read_fstring(b.rest, checks)
                      IN  IF ~c.ok THEN c
                          ELSE Done([PlayerUId |-> a.val,
                                     LastOnlineRealTime |-> b.val,
                                     PlayerName |-> c.val], c.rest)

\* a plausible slip: the name is written before the timestamp
write_fpal_guild_player_info_name_first(player_info) ==
    write_uuid(player_info.PlayerUId)
    \o write_fstring(player_info.PlayerName)
    \o write_fdatetime(player_info.LastOnlineRealTime)

write_fpal_guild_player_info(player_info) ==
    write_uuid(player_info.PlayerUId)
    \o write_fdatetime(player_info.LastOnlineRealTime)
    \o write_fstring(player_info.PlayerName)

\* the element writers handed to write_tarray, by name
write_element(elem, item) ==
    CASE elem = "Uuid" -> write_uuid(item)
      [] elem = "FPalInstanceId" -> write_fpal_instance_id(item)
      [] elem = "FPalGuildPlayerInfo" -> write_fpal_guild_player_info(item)

write_tarray(items, elem) ==
    to_le_bytes32(Len(items))
    \o Flatten([k \in 1..Len(items) |-> write_element(elem, items[k])])

\* the element parsers handed to length_repeat, by name
read_element(elem, i, checks) ==
    CASE elem = "Uuid" -> read_uuid(i)
      [] elem = "FPalInstanceId" -> read_fpal_instance_id(i)
      [] elem = "FPalGuildPlayerInfo" -> read_fpal_guild_player_info(i, checks)

\* winnow repeat(n, parser): n elements in sequence, the first failure ends it.
\* A count of 2^31 or more (a negative pattern) never counts down to zero
\* before the input runs out.
\* the value just parsed goes in front of those parsed after it
Prepend(v, r) == IF ~r.ok THEN r ELSE Done(<<v>> \o r.val, r.rest)

RECURSIVE repeat(_, _, _, _)
\* the rest of repeat once the first element's parser returned e
RepeatAfter(e, n, elem, checks) ==
    IF ~e.ok THEN e
    ELSE Prepend(e.val, repeat(e.rest, IF n < 0 THEN n ELSE n - 1, elem, checks))

repeat(i, n, elem, checks) ==
    IF n = 0 THEN Done(<<>>, i)
    ELSE RepeatAfter(read_element(elem, i, checks), n, elem, checks)

\* winnow length_repeat(le_u32, parser)
length_repeat(i, elem, checks) ==
    LET n == le_u32(i)
    IN  IF ~n.ok THEN n ELSE repeat(n.rest, n.val, elem, checks)

(***************************************************************************)
(* GroupGuildSave.                                                         *)
(***************************************************************************)
\* the fields of the seq! of read_group_guild_save, in its order
GroupGuildSaveFields ==
    <<"UnknownUuid", "MayBeOwner", "InstanceIds", "unknown", "UnknownGuid",
      "BaseCampLevel", "UnknownGuid2", "GuildName", "AdminPlayerUId", "GuildPlayerInfo">>

\* the parser the seq! gives each field
read_field(f, i, checks) ==
    CASE f = "UnknownUuid" -> read_uuid(i)
      [] f = "MayBeOwner" -> read_fstring(i, checks)
      [] f = "InstanceIds" -> length_repeat(i, "FPalInstanceId", checks)
      [] f = "unknown" -> le_u8(i)
      [] f = "UnknownGuid" -> length_repeat(i, "Uuid", checks)
      [] f = "BaseCampLevel" -> le_u32(i)
      [] f = "UnknownGuid2" -> length_repeat(i, "Uuid", checks)
      [] f = "GuildName" -> read_fstring(i, checks)
      [] f = "AdminPlayerUId" -> read_uuid(i)
      [] f = "GuildPlayerInfo" -> length_repeat(i, "FPalGuildPlayerInfo", checks)

\* seq!: the fields' parsers one after the other, the first failure ends it
RECURSIVE seq_fields(_, _, _)
\* the rest of the seq! once the first field's parser returned e
SeqAfter(e, fields, checks) ==
    IF ~e.ok THEN e ELSE Prepend(e.val, seq_fields(e.rest, Tail(fields), checks))

seq_fields(i, fields, checks) ==
    IF fields = <<>> THEN Done(<<>>, i)
    ELSE SeqAfter(read_field(Head(fields), i, checks), fields, checks)

\* the GroupGuildSave built from the fields' values
MkGroupGuildSave(r) ==
    IF ~r.ok THEN r
    ELSE Done([UnknownUuid |-> r.val[1],
               MayBeOwner |-> r.val[2],
               InstanceIds |-> r.val[3],
               unknown |-> r.val[4],
               UnknownGuid |-> r.val[5],
               BaseCampLevel |-> r.val[6],
               UnknownGuid2 |-> r.val[7],
               GuildName |-> r.val[8],
               AdminPlayerUId |-> r.val[9],
               GuildPlayerInfo |-> r.val[10]], r.rest)

read_group_guild_save(i, checks) ==
    MkGroupGuildSave(seq_fields(i, GroupGuildSaveFields, checks))

\* a plausible slip: the writer emits both identifier arrays before the level
write_group_guild_save_level_last(g) ==
    write_uuid(g.UnknownUuid)
    \o write_fstring(g.MayBeOwner)
    \o write_tarray(g.InstanceIds, "FPalInstanceId")
    \o <<g.unknown>>
    \o write_tarray(g.UnknownGuid, "Uuid")
    \o write_tarray(g.UnknownGuid2, "Uuid")
    \o to_le_bytes32(g.BaseCampLevel)
    \o write_fstring(g.GuildName)
    \o write_uuid(g.AdminPlayerUId)
    \o write_tarray(g.GuildPlayerInfo, "FPalGuildPlayerInfo")

write_group_guild_save(g) ==
    write_uuid(g.UnknownUuid)
    \o write_fstring(g.MayBeOwner)
    \o write_tarray(g.InstanceIds, "FPalInstanceId")
    \o <<g.unknown>>
    \o write_tarray(g.UnknownGuid, "Uuid")
    \o to_le_bytes32(g.BaseCampLevel)
    \o write_tarray(g.UnknownGuid2, "Uuid")
    \o write_fstring(g.GuildName)
    \o write_uuid(g.AdminPlayerUId)
    \o write_tarray(g.GuildPlayerInfo, "FPalGuildPlayerInfo")

(***************************************************************************)
(* The property list of uesave, as the character codec uses it.  A         *)
(* property is [name, value], name a non-zero byte; on the wire it is the  *)
(* name byte and the value, which takes PropWidth(header) bytes (the       *)
(* layout depends on the header's versions); the byte PropNone ends the    *)
(* list.                                                                   *)
(***************************************************************************)
PropNone == 0

PropWidth(header) == IF header.large_world_coordinates THEN 2 ELSE 1

PropValueBytes(header, v) == IF PropWidth(header) = 2 THEN <<v, 0>> ELSE <<v>>

\* uesave::write_properties_none_terminated under writer.header(header, ..)
write_properties_none_terminated(header, properties) ==
    Flatten([k \in 1..Len(properties) |->
                <<properties[k].name>> \o PropValueBytes(header, properties[k].value)])
    \o <<PropNone>>

\* uesave::read_properties_until_none under reader.header(header, ..)
RECURSIVE read_properties_until_none(_, _)
read_properties_until_none(header, i) ==
    IF i = <<>> THEN Fail("UnexpectedEof")
    ELSE IF i[1] = PropNone THEN Done(<<>>, Drop(i, 1))
    ELSE IF Len(i) < 1 + PropWidth(header) THEN Fail("UnexpectedEof")
    ELSE IF PropWidth(header) = 2 /\ i[3] # 0 THEN Fail("MalformedProperty")
    ELSE LET r == read_properties_until_none(header, Drop(i, 1 + PropWidth(header)))
         IN  IF ~r.ok THEN r
             ELSE Done(<<[name |-> i[1], value |-> i[2]]>> \o r.val, r.rest)

(***************************************************************************)
(* CharacterSaveParameter.  Every failure inside the reader is unwrapped:  *)
(* the process panics.                                                     *)
(***************************************************************************)
\* a plausible slip: the reserved word is kept as one more property
UseReservedKept(props, reserved) == props \o <<[name |-> 255, value |-> reserved]>>

\* what the reader does with the reserved u32: nothing
UseReserved(props, reserved) == props

read_raw_character_save_parameter(header, bytes) ==
    LET p == read_properties_until_none(header, bytes) IN
    IF ~p.ok THEN Fail("Panic") ELSE
    IF Len(p.rest) < 4 THEN Fail("Panic") ELSE
    LET unknown == FromLe(p.rest)
        after   == Drop(p.rest, 4)
    IN  IF Len(after) < 16 THEN Fail("Panic")
        ELSE LET u == read_uuid(Take(after, 16))
             IN  Done([properties |-> UseReserved(p.val, unknown), group_id |-> u.val],
                      Drop(after, 16))

\* the four bytes written between the property list and the group id
ReservedBytes == <<0, 0, 0, 0>>

\* a plausible slip: the reserved word is left out
write_raw_character_save_parameter_no_reserved(header, c) ==
    write_properties_none_terminated(header, c.properties) \o write_uuid(c.group_id)

write_raw_character_save_parameter(header, c) ==
    write_properties_none_terminated(header, c.properties)
    \o ReservedBytes
    \o write_uuid(c.group_id)

(***************************************************************************)
(* zlib, as flate2 exposes it.  A stream is the two header bytes (0x78 and *)
(* a level flag), the compressed body and a checksum; the body is modelled *)
(* as a length byte and the data.  Many streams inflate to the same data   *)
(* (one per level flag); the encoder always emits the default level.       *)
(***************************************************************************)
ZlibCmf == 120

ZlibFlagDefault == 156

ZlibFlags == {1, 94, 156, 218}

Adler(d) == LET RECURSIVE sum(_)
                sum(x) == IF x = <<>> THEN 1 ELSE (Head(x) + 3 * sum(Tail(x))) % 251
            IN  sum(d)

\* ZlibEncoder: write_all(d) then finish()
ZlibEncodeFinished(d) == <<ZlibCmf, ZlibFlagDefault, Len(d)>> \o d \o <<Adler(d)>>

\* ZlibEncoder: write_all(d), never finished: the stream lacks its end
ZlibEncodeUnfinished(d) == <<ZlibCmf, ZlibFlagDefault, Len(d)>> \o d

\* ZlibEncoder: write_all(d), then the encoder goes out of scope: its Drop
\* finishes the stream
ZlibEncodeDropped(d) == ZlibEncodeFinished(d)

\* ZlibDecoder read to the end: [ok, data].  A stream that ends early reads
\* as end of file after the data it held; a bad header or checksum is an error;
\* bytes after the end of the stream are not read.
ZlibDecode(z) ==
    IF Len(z) < 2 THEN [ok |-> TRUE, data |-> <<>>]
    ELSE IF z[1] # ZlibCmf \/ z[2] \notin ZlibFlags THEN [ok |-> FALSE, data |-> <<>>]
    ELSE IF Len(z) < 3 THEN [ok |-> TRUE, data |-> <<>>]
    ELSE LET n    == z[3]
             body == Drop(z, 3)
         IN  IF Len(body) <= n THEN [ok |-> TRUE, data |-> body]
             ELSE IF body[n + 1] = Adler(Take(body, n))
                  THEN [ok |-> TRUE, data |-> Take(body, n)]
                  ELSE [ok |-> FALSE, data |-> <<>>]

(***************************************************************************)
(* uesave::Save: a header, the root properties and the bytes that follow   *)
(* them, which the reader keeps (read_to_end) and the writer writes back.  *)
(***************************************************************************)
HeaderByte(header) == IF header.large_world_coordinates THEN 1 ELSE 0

\* Save::write
SaveWrite(save) ==
    <<HeaderByte(save.header)>>
    \o write_properties_none_terminated(save.header, save.root)
    \o save.extra

\* Save::read_with_types
SaveRead(i) ==
    IF i = <<>> THEN Fail("UnexpectedEof")
    ELSE IF i[1] \notin {0, 1} THEN Fail("MalformedProperty")
    ELSE LET header == [large_world_coordinates |-> i[1] = 1]
             r      == read_properties_until_none(header, Drop(i, 1))
         IN  IF ~r.ok THEN r
             ELSE Done([header |-> header, root |-> r.val, extra |-> r.rest], <<>>)

(***************************************************************************)
(* The container: read_save_file and write_save_file.                      *)
(***************************************************************************)
PLZ_MAGIC == <<80, 108, 90>>

TierStored == 48

TierZlib == 49

TierZlibTwice == 50

\* the inflate passes of each tier on read
ReadPayload(compression_type, payload) ==
    CASE compression_type = TierStored -> [ok |-> TRUE, data |-> payload]
      [] compression_type = TierZlib -> ZlibDecode(payload)
      [] compression_type = TierZlibTwice ->
            LET outer == ZlibDecode(payload)
            IN  IF outer.ok THEN ZlibDecode(outer.data) ELSE outer

\* a plausible slip: the tier byte is validated before the magic
read_save_file_tier_first(bytes) ==
    IF Len(bytes) < 12 THEN Fail("UnexpectedEof") ELSE
    IF bytes[12] \notin {TierStored, TierZlib, TierZlibTwice}
    THEN Fail("Invalid compression method") ELSE
    IF SubSeq(bytes, 9, 11) # PLZ_MAGIC THEN Fail("Invalid magic") ELSE
    LET inner == ReadPayload(bytes[12], Drop(bytes, 12))
    IN  IF ~inner.ok THEN Fail("corrupt deflate stream")
        ELSE LET save == SaveRead(inner.data)
             IN  IF ~save.ok THEN save
                 ELSE Done([compression_type |-> bytes[12], save |-> save.val], <<>>)

read_save_file(bytes) ==
    IF Len(bytes) < 8 THEN Fail("UnexpectedEof") ELSE
    IF Len(bytes) < 11 THEN Fail("UnexpectedEof") ELSE
    IF SubSeq(bytes, 9, 11) # PLZ_MAGIC THEN Fail("Invalid magic") ELSE
    IF Len(bytes) < 12 THEN Fail("UnexpectedEof") ELSE
    LET compression_type == bytes[12]
        payload == Drop(bytes, 12)
    IN  IF compression_type \notin {TierStored, TierZlib, TierZlibTwice}
        THEN Fail("Invalid compression method")
        ELSE LET inner == ReadPayload(compression_type, payload)
             IN  IF ~inner.ok THEN Fail("corrupt deflate stream")
                 ELSE LET save == SaveRead(inner.data)
                      IN  IF ~save.ok THEN save
                          ELSE Done([compression_type |-> compression_type,
                                     save |-> save.val], <<>>)

\* the second encoder of the double-deflate arm is never finished explicitly
SecondPass(buffer) == ZlibEncodeDropped(buffer)

\* a plausible slip: the writer falls back to the stored tier's byte
TierByteRenegotiated(compression_type) ==
    IF compression_type = TierZlibTwice THEN TierZlib ELSE compression_type

\* the tier byte written is the one the PalSave holds
TierByteWritten(compression_type) == compression_type

\* a plausible slip: compressed_length of the double-deflate arm taken from
\* the payload written
write_save_file_payload_length(pal_save) ==
    LET uncompressed_save == SaveWrite(pal_save.save)
        t == pal_save.compression_type
    IN  IF t \notin {TierStored, TierZlib, TierZlibTwice}
        THEN Fail("Invalid compression method")
        ELSE LET buffer == ZlibEncodeFinished(uncompressed_save)
                 compressed ==
                    CASE t = TierStored -> uncompressed_save
                      [] t = TierZlib -> buffer
                      [] t = TierZlibTwice -> SecondPass(buffer)
             IN  Done(to_le_bytes32(Len(uncompressed_save))
                      \o to_le_bytes32(Len(compressed))
                      \o PLZ_MAGIC
                      \o <<TierByteWritten(t)>>
                      \o compressed, <<>>)

write_save_file(pal_save) ==
    LET uncompressed_save == SaveWrite(pal_save.save)
        uncompressed_length == Len(uncompressed_save)
        t == pal_save.compression_type
    IN  IF t \notin {TierStored, TierZlib, TierZlibTwice}
        THEN Fail("Invalid compression method")
        ELSE LET buffer == ZlibEncodeFinished(uncompressed_save)
                 compressed ==
                    CASE t = TierStored -> uncompressed_save
                      [] t = TierZlib -> buffer
                      [] t = TierZlibTwice -> SecondPass(buffer)
                 compressed_length ==
                    CASE t = TierStored -> uncompressed_length
                      [] t = TierZlib -> Len(compressed)
                      [] t = TierZlibTwice -> Len(buffer)
             IN  Done(to_le_bytes32(uncompressed_length)
                      \o to_le_bytes32(compressed_length)
                      \o PLZ_MAGIC
                      \o <<TierByteWritten(t)>>
                      \o compressed, <<>>)

(***************************************************************************)
(* The inputs the operations are run on.                                   *)
(***************************************************************************)
SeqsUpTo(S, n) == UNION {[1..k -> S] : k \in 0..n}

UuidOf(k) ==
    << 16 * k, 16 * k + 1, 16 * k + 2, 16 * k + 3, 16 * k + 4, 16 * k + 5,
       16 * k + 6, 16 * k + 7, 16 * k + 8, 16 * k + 9, 16 * k + 10, 16 * k + 11,
       16 * k + 12, 16 * k + 13, 16 * k + 14, 16 * k + 15 >>

UuidSq(k) == [j \in 1..16 |-> (j * j * (k + 3) + k) % 256]

Uuids == {UuidOf(k) : k \in 0..MaxUuid} \cup {UuidSq(k) : k \in 0..MaxUuid}

\* NUL, 'A', e-acute (2 UTF-8 bytes), the euro sign (3), an emoji (4, 2 UTF-16 units)
Chars == {0, 65, 233, 8364, 128512}

Strings == SeqsUpTo(Chars, MaxStrLen)

\* payload bytes of a non-unicode string on the wire: NUL, 'A', the two bytes
\* of e-acute, and a byte that is never valid UTF-8
WireBytes == {0, 65, 195, 169, 255}

\* payload units of a unicode string on the wire: 'A', e-acute, the two
\* surrogates of the emoji
WireUnits == {65, 233, 55357, 56832}

\* a string on the wire with the prefix 0, a positive one or a negative one
StringWires ==
    {to_le_bytes32(0)}
    \cup {to_le_bytes32(Len(b) + 1) \o b \o <<0>> : b \in SeqsUpTo(WireBytes, MaxStrLen)}
    \cup {to_le_bytes32(-Len(u) - 1) \o UnitsToBytes(u) \o <<0, 0>> :
             u \in SeqsUpTo(WireUnits, MaxStrLen)}

InstanceIdOf(k) == [PlayerUId |-> UuidOf(k), InstanceUId |-> UuidSq(k)]

PlayerInfoOf(k, name) ==
    [PlayerUId |-> UuidOf(k),
     LastOnlineRealTime |-> [Ticks |-> <<1000 * k + 7, k - 1>>],
     PlayerName |-> name]

\* u32 values of BaseCampLevel: 0, 20 and 0xFFFFFFFF
Levels == {0, 20, -1}

MkGuild(owner, name, n1, n2, n3, n4, lvl) ==
    [UnknownUuid |-> UuidSq(0),
     MayBeOwner |-> owner,
     InstanceIds |-> [k \in 1..n1 |-> InstanceIdOf(k)],
     unknown |-> n1 + 2 * n4,
     UnknownGuid |-> [k \in 1..n2 |-> UuidOf(k)],
     BaseCampLevel |-> lvl,
     UnknownGuid2 |-> [k \in 1..n3 |-> UuidSq(k)],
     GuildName |-> name,
     AdminPlayerUId |-> UuidOf(1),
     GuildPlayerInfo |-> [k \in 1..n4 |-> PlayerInfoOf(k, IF k = 1 THEN name ELSE owner)]]

GuildNames == {<<>>, <<65>>, <<233, 65>>}

GuildSaves ==
    {MkGuild(o, n, 1, 1, 1, 1, 20) : o \in Strings, n \in GuildNames}
    \cup {MkGuild(<<65>>, <<8364>>, n1, n2, n3, n4, lvl) :
             n1 \in 0..MaxArr, n2 \in 0..MaxArr, n3 \in 0..MaxArr, n4 \in 0..MaxArr,
             lvl \in Levels}

\* a guild blob whose two top-level strings are given as they stand on the wire
GuildBlobWith(g, owner_wire, name_wire) ==
    write_uuid(g.UnknownUuid)
    \o owner_wire
    \o write_tarray(g.InstanceIds, "FPalInstanceId")
    \o <<g.unknown>>
    \o write_tarray(g.UnknownGuid, "Uuid")
    \o to_le_bytes32(g.BaseCampLevel)
    \o write_tarray(g.UnknownGuid2, "Uuid")
    \o name_wire
    \o write_uuid(g.AdminPlayerUId)
    \o write_tarray(g.GuildPlayerInfo, "FPalGuildPlayerInfo")

NameWires ==
    {to_le_bytes32(0), to_le_bytes32(2) \o <<65, 0>>, to_le_bytes32(-2) \o <<65, 0, 0, 0>>}

GuildBlobs ==
    {GuildBlobWith(MkGuild(<<65>>, <<65>>, 1, 1, 1, 1, 20), w1, w2) :
        w1 \in StringWires, w2 \in NameWires}
    \cup {GuildBlobWith(g, to_le_bytes32(2) \o <<65, 0>>, to_le_bytes32(2) \o <<65, 0>>) :
             g \in {MkGuild(<<65>>, <<65>>, n1, n2, n3, n4, -1) :
                       n1 \in 0..MaxArr, n2 \in 0..MaxArr, n3 \in 0..MaxArr,
                       n4 \in 0..MaxArr}}

\* the guild whose encoding is cut short: a one-byte string, a UTF-16 one and
\* one element in each array
ShortGuild == MkGuild(<<65>>, <<8364>>, 1, 1, 1, 1, 20)

\* every proper prefix of its encoding
GuildBlobPrefixes ==
    {Take(write_group_guild_save(ShortGuild), k) :
        k \in 0..(Len(write_group_guild_save(ShortGuild)) - 1)}

\* an array on the wire under a count that is not its length
TArrayWithCount(count, items, elem) ==
    to_le_bytes32(count) \o Drop(write_tarray(items, elem), 4)

\* u32 counts above the one element present: 2, 2^31 - 1, 2^31, 2^32 - 1
OversizeCounts == {2, 2147483647, I32Min, -1}

\* its encoding with the count of one of the four arrays raised
GuildBlobOversizeCount(which, count) ==
    LET g == ShortGuild
        c(k) == IF k = which THEN count ELSE 1
    IN  write_uuid(g.UnknownUuid)
        \o write_fstring(g.MayBeOwner)
        \o TArrayWithCount(c(1), g.InstanceIds, "FPalInstanceId")
        \o <<g.unknown>>
        \o TArrayWithCount(c(2), g.UnknownGuid, "Uuid")
        \o to_le_bytes32(g.BaseCampLevel)
        \o TArrayWithCount(c(3), g.UnknownGuid2, "Uuid")
        \o write_fstring(g.GuildName)
        \o write_uuid(g.AdminPlayerUId)
        \o TArrayWithCount(c(4), g.GuildPlayerInfo, "FPalGuildPlayerInfo")

\* string length prefixes that demand more than a whole record holds:
\* 2^31 - 1, 1000, -1000, -2^31 + 1, -2^31
OversizeStringLengths == {2147483647, 1000, -1000, I32Min + 1, I32Min}

\* a string at the very end of a record: the prefix and the bytes present, which
\* are fewer than the prefix demands with its terminator
ShortStringWires ==
    {to_le_bytes32(l) \o <<65, 0>> : l \in OversizeStringLengths}
    \cup {to_le_bytes32(l) : l \in OversizeStringLengths}
    \cup {to_le_bytes32(1), to_le_bytes32(2), to_le_bytes32(2) \o <<65>>,
          to_le_bytes32(3) \o <<65, 66>>,
          to_le_bytes32(-1), to_le_bytes32(-1) \o <<0>>, to_le_bytes32(-2) \o <<65, 0>>,
          to_le_bytes32(-2) \o <<65, 0, 0>>, to_le_bytes32(-3) \o <<65, 0, 66>>}

\* the encoding up to the name of its last member, the name as given
GuildBlobEndingIn(name_wire) ==
    LET whole == write_group_guild_save(ShortGuild)
        name  == write_fstring(ShortGuild.GuildPlayerInfo[1].PlayerName)
    IN  Take(whole, Len(whole) - Len(name)) \o name_wire

\* guild blobs some field of which cannot be fully read
ShortGuildBlobs ==
    GuildBlobPrefixes
    \cup {GuildBlobOversizeCount(which, count) : which \in 1..4, count \in OversizeCounts}
    \cup {GuildBlobWith(ShortGuild, to_le_bytes32(l) \o <<65, 0>>, write_fstring(<<65>>)) :
             l \in OversizeStringLengths}
    \cup {GuildBlobEndingIn(w) : w \in ShortStringWires}

Headers == {[large_world_coordinates |-> b] : b \in BOOLEAN}

Properties == SeqsUpTo({[name |-> 1, value |-> 5], [name |-> 2, value |-> 0]}, MaxProps)

CharacterSaveParameters ==
    {[properties |-> p, group_id |-> u] : p \in Properties, u \in {UuidOf(1), UuidSq(2)}}

ReservedWires == {<<0, 0, 0, 0>>, <<1, 0, 0, 0>>, <<255, 255, 255, 255>>}

\* a character blob: property list, reserved word, group id, and what follows;
\* then blobs that end one byte short
CharacterBlobs ==
    {[header |-> h,
      bytes |-> write_properties_none_terminated(h, c.properties) \o r
                \o write_uuid(c.group_id) \o t] :
        h \in Headers, c \in CharacterSaveParameters, r \in ReservedWires,
        t \in {<<>>, <<7>>}}
    \cup {[header |-> h,
           bytes |-> write_properties_none_terminated(h, c.properties) \o <<0, 0, 0, 0>>
                     \o Take(write_uuid(c.group_id), 15)] :
             h \in Headers, c \in CharacterSaveParameters}

Saves ==
    {[header |-> h, root |-> p, extra |-> e] :
        h \in Headers, p \in Properties, e \in {<<>>, <<0, 0, 0, 0>>}}

PalSaves ==
    {[compression_type |-> t, save |-> sv] :
        t \in {TierStored, TierZlib, TierZlibTwice, 51}, sv \in Saves}

\* a container laid out field by field
MkContainer(ulen, clen, magic, tier, payload) ==
    to_le_bytes32(ulen) \o to_le_bytes32(clen) \o magic \o <<tier>> \o payload

\* a zlib stream of another compression level
ZlibOfLevel(flag, d) == <<ZlibCmf, flag, Len(d)>> \o d \o <<Adler(d)>>

\* the containers read: those the writer produces, then the same with a wrong
\* length field, a foreign compression level, another magic, an unknown tier
ContainersOf(sv) ==
    LET raw == SaveWrite(sv)
        z1  == ZlibEncodeFinished(raw)
        z2  == ZlibEncodeFinished(z1)
    IN  { MkContainer(Len(raw), Len(raw), PLZ_MAGIC, TierStored, raw),
          MkContainer(Len(raw), Len(z1), PLZ_MAGIC, TierZlib, z1),
          MkContainer(Len(raw), Len(z1), PLZ_MAGIC, TierZlibTwice, z2),
          MkContainer(0, Len(raw), PLZ_MAGIC, TierStored, raw),
          MkContainer(Len(raw), Len(z1) + 1, PLZ_MAGIC, TierZlib, z1),
          MkContainer(Len(raw), Len(z2), PLZ_MAGIC, TierZlibTwice, z2),
          MkContainer(Len(raw), Len(z1), PLZ_MAGIC, TierZlib, ZlibOfLevel(218, raw)),
          MkContainer(Len(raw), Len(z1), PLZ_MAGIC, TierZlibTwice,
                      ZlibOfLevel(1, ZlibOfLevel(94, raw))),
          MkContainer(Len(raw), Len(z1), PLZ_MAGIC, TierZlib, z1 \o <<9>>),
          MkContainer(Len(raw), Len(raw), <<80, 108, 122>>, TierStored, raw),
          MkContainer(Len(raw), Len(z1), PLZ_MAGIC, 51, z1) }

\* a payload no tier decodes: neither a property tree nor a zlib stream
CorruptPayload == <<255, 255, 255>>

\* containers with another magic or an unknown tier byte, over a payload that
\* decodes, one that does not, and none; and one that ends with its magic
RejectedContainersOf(sv) ==
    LET raw == SaveWrite(sv)
        z1  == ZlibEncodeFinished(raw)
    IN  { MkContainer(Len(raw), Len(z1), magic, tier, payload) :
            magic \in {<<80, 108, 122>>, <<0, 108, 90>>},
            tier \in {TierStored, TierZlib, TierZlibTwice, 51, 0},
            payload \in {raw, z1, CorruptPayload, <<>>} }
        \cup { MkContainer(Len(raw), Len(z1), PLZ_MAGIC, tier, payload) :
                 tier \in {51, 47, 0, 255},
                 payload \in {raw, z1, CorruptPayload, <<>>} }
        \cup { Take(MkContainer(Len(raw), Len(z1), magic, 51, <<>>), 11) :
                 magic \in {<<80, 108, 122>>, PLZ_MAGIC} }

\* the payloads the writer gives a save, each with its tier and with the
\* compressed_length a container may state for it
WrittenPayloadsOf(sv) ==
    LET raw == SaveWrite(sv)
        z1  == ZlibEncodeFinished(raw)
        z2  == ZlibEncodeFinished(z1)
    IN  { <<TierStored, raw, Len(raw)>>, <<TierZlib, z1, Len(z1)>>,
          <<TierZlibTwice, z2, Len(z1)>>, <<TierZlibTwice, z2, Len(z2)>> }

\* containers cut short: every proper prefix of a written payload under the
\* header of the whole one
TruncatedContainersOf(sv) ==
    UNION { { MkContainer(Len(SaveWrite(sv)), p[3], PLZ_MAGIC, p[1], Take(p[2], k)) :
                k \in 0..(Len(p[2]) - 1) } : p \in WrittenPayloadsOf(sv) }

Containers ==
    UNION {ContainersOf(sv) \cup RejectedContainersOf(sv) \cup TruncatedContainersOf(sv) :
              sv \in Saves}

(***************************************************************************)
(* main.  A file is held as what read_save_file makes of it: a record      *)
(* [kind |-> "container", compression_type, save] for one that decodes,    *)
(* with the save's property tree as a record of its members, and           *)
(* [kind |-> "garbage"] or [kind |-> "empty"] for one that does not.  The  *)
(* tree's field members names the members it has; main indexes and unwraps *)
(* them, which panics for one that is not there.  A map key without its    *)
(* InstanceId has Absent in its place.                                     *)
(***************************************************************************)
Absent == <<>>

\* properties.get(member) is Some
Has(pal_save, member) == member \in pal_save.save.root.members

EmptyFile == [kind |-> "empty"]

GarbageFile == [kind |-> "garbage"]

\* read_save_file(File::open(path)?) on a file of the directory
read_file(file) ==
    IF file.kind = "container"
       /\ file.compression_type \in {TierStored, TierZlib, TierZlibTwice}
    THEN Done([compression_type |-> file.compression_type, save |-> file.save], <<>>)
    ELSE Fail("Err")

\* write_save_file into the file created: what the file then holds
write_file(pal_save) ==
    [kind |-> "container", compression_type |-> pal_save.compression_type,
     save |-> pal_save.save]

\* get_world_save_data(..).get("GroupSaveDataMap").unwrap()
get_group_save_data_map(pal_save) == pal_save.save.root.GroupSaveDataMap

\* get_world_save_data(..).get("CharacterSaveParameterMap").unwrap()
get_character_save_parameter_map(pal_save) == pal_save.save.root.CharacterSaveParameterMap

is_group_type_guild(entry) == entry.GroupType = "EPalGroupType::Guild"

\* parse_raw_group_guild_save: the parser's result, unwrapped by the caller
parse_raw_group_guild_save(entry, checks) == read_group_guild_save(entry.RawData, checks)

\* Vec::extend, front and back exchanged: a plausible slip
extend_front(map, entries) == entries \o map

\* Vec::extend
extend(map, entries) == map \o entries

\* step 2: the guild-type entries of GroupSaveDataMap, in its order
GuildEntries(pal_save) ==
    SelectSeq(get_group_save_data_map(pal_save), is_group_type_guild)

\* step 2: (guild_id, parse_raw_group_guild_save(entry)) of each of them
ParsedGroups(pal_save, checks) ==
    [k \in 1..Len(GuildEntries(pal_save)) |->
        [guild_id |-> GuildEntries(pal_save)[k].key,
         parsed |-> parse_raw_group_guild_save(GuildEntries(pal_save)[k], checks)]]

\* step 3: the InstanceId of every key of CharacterSaveParameterMap
CharacterInstanceIds(pal_save) ==
    {get_character_save_parameter_map(pal_save)[k].key.InstanceId :
        k \in 1..Len(get_character_save_parameter_map(pal_save))}

\* step 4: (player_uid, instance_id) of a player save
IndividualId(pal_save) ==
    [player_uid |-> pal_save.save.root.SaveData.IndividualId.PlayerUId,
     instance_id |-> pal_save.save.root.SaveData.IndividualId.InstanceId]

\* step 5: the players whose instance id is no key of the map, in order
WithoutCharacterSave(ids, map) == SelectSeq(ids, LAMBDA p : p.instance_id \notin map)

\* the name property of the template's SaveParameter struct
NickNameProperty == 2

\* step 6: the template with the nickname inserted, and the guild's id
create_new_character_save(nickname, guild_id) ==
    [properties |-> <<[name |-> NickNameProperty, value |-> nickname]>>,
     group_id |-> guild_id]

\* .iter().find(..): the index of the first member with the player's uid, 0 for None
FindMember(group, player_uid) ==
    IF \E j \in 1..Len(group.GuildPlayerInfo) :
            group.GuildPlayerInfo[j].PlayerUId = player_uid
    THEN CHOOSE j \in 1..Len(group.GuildPlayerInfo) :
            /\ group.GuildPlayerInfo[j].PlayerUId = player_uid
            /\ \A i \in 1..(j - 1) : group.GuildPlayerInfo[i].PlayerUId # player_uid
    ELSE 0

\* .iter().find_map(..): the index of the first group with such a member, 0 for None
FindGroup(grps, player_uid) ==
    IF \E k \in 1..Len(grps) : FindMember(grps[k].group, player_uid) # 0
    THEN CHOOSE k \in 1..Len(grps) :
            /\ FindMember(grps[k].group, player_uid) # 0
            /\ \A i \in 1..(k - 1) : FindMember(grps[i].group, player_uid) = 0
    ELSE 0

\* step 6: the map entry made for a player found in group k
NewCharacterSave(header, grps, k, p) ==
    [key |-> [PlayerUId |-> p.player_uid, InstanceId |-> p.instance_id, DebugName |-> <<>>],
     RawData |-> write_raw_character_save_parameter(header,
                    create_new_character_save(
                        grps[k].group.GuildPlayerInfo[
                            FindMember(grps[k].group, p.player_uid)].PlayerName,
                        grps[k].guild_id))]

(***************************************************************************)
(* The directories main is run on.                                         *)
(***************************************************************************)
MaxPlayers == 2

PlayerUIdOf(k) == UuidOf(k)

InstanceIdOfPlayer(k) == UuidSq(k)

\* a player save, its tree whole or without the members main indexes
PlayerFile(k) ==
    [kind |-> "container", compression_type |-> TierZlib,
     save |-> [header |-> [large_world_coordinates |-> FALSE],
               root |-> [members |-> {"SaveData"},
                         SaveData |-> [IndividualId |->
                            [PlayerUId |-> PlayerUIdOf(k),
                             InstanceId |-> InstanceIdOfPlayer(k)]]]]]

\* a player save without SaveData
MalformedPlayerFile ==
    [PlayerFile(1) EXCEPT !.save.root.members = {}]

\* a guild with the players 1..n as members, player 1 under the guild's name
\* and the others under the owner's
GuildOfPlayers(owner, name, n) == MkGuild(owner, name, 1, 0, 0, n, 20)

GuildEntry(id, guild) ==
    [key |-> id, GroupType |-> "EPalGroupType::Guild",
     RawData |-> write_group_guild_save(guild)]

\* entries of GroupSaveDataMap: a guild of the first n players, a second guild
\* of all of them, a guild whose record is cut short, a group of another type
\* whose data is no guild record
GroupEntries ==
    {GuildEntry(UuidSq(3), GuildOfPlayers(<<65>>, <<8364>>, n)) : n \in 0..MaxPlayers}
    \cup {GuildEntry(UuidOf(0), GuildOfPlayers(<<233>>, <<65, 65>>, MaxPlayers)),
          [key |-> UuidOf(3), GroupType |-> "EPalGroupType::Guild",
           RawData |-> Take(write_group_guild_save(ShortGuild), 40)],
          [key |-> UuidOf(2), GroupType |-> "EPalGroupType::Organization",
           RawData |-> <<1, 2, 3>>]}

GroupMaps == SeqsUpTo(GroupEntries, 2)

CharacterEntry(k) ==
    [key |-> [PlayerUId |-> PlayerUIdOf(k), InstanceId |-> InstanceIdOfPlayer(k),
              DebugName |-> <<>>],
     RawData |-> <<k>>]

\* an entry that is no player's: a pal
PalEntry ==
    [key |-> [PlayerUId |-> UuidOf(0), InstanceId |-> UuidSq(0), DebugName |-> <<>>],
     RawData |-> <<0>>]

\* the sequences got from s by leaving elements out
RECURSIVE SubSeqs(_)
SubSeqs(s) ==
    IF s = <<>> THEN {<<>>}
    ELSE SubSeqs(Tail(s)) \cup {<<Head(s)>> \o t : t \in SubSeqs(Tail(s))}

Reverse(s) == [k \in 1..Len(s) |-> s[Len(s) + 1 - k]]

\* CharacterSaveParameterMap: the pal and the players, some left out, and all
\* of them in the opposite order
CharacterMaps ==
    SubSeqs(<<PalEntry>> \o [k \in 1..MaxPlayers |-> CharacterEntry(k)])
    \cup {Reverse(<<PalEntry>> \o [k \in 1..MaxPlayers |-> CharacterEntry(k)])}

LevelFile(tier, lwc, grps, chars) ==
    [kind |-> "container", compression_type |-> tier,
     save |-> [header |-> [large_world_coordinates |-> lwc],
               root |-> [members |-> {"GroupSaveDataMap", "CharacterSaveParameterMap"},
                         GroupSaveDataMap |-> grps,
                         CharacterSaveParameterMap |-> chars]]]

\* the same without one of the maps
LevelFileWithout(member) ==
    [LevelFile(TierZlib, FALSE, <<>>, <<>>) EXCEPT
        !.save.root.members = @ \ {member}]

\* the player saves of the directory: the players, some left out, and all of
\* them in the opposite order
PlayerLists ==
    SubSeqs([k \in 1..MaxPlayers |-> PlayerFile(k)])
    \cup {Reverse([k \in 1..MaxPlayers |-> PlayerFile(k)])}

Directory(level, players) == [players_dir |-> TRUE, level |-> level, players |-> players]

\* directories whose files all decode: every group map, character map and
\* list of player saves
WholeDirectories ==
    {Directory(LevelFile(TierZlib, FALSE, g, c), p) :
        g \in GroupMaps, c \in CharacterMaps, p \in PlayerLists}

\* one directory whose only player, player 1, has no character save
BrokenGroups == <<GuildEntry(UuidSq(3), GuildOfPlayers(<<65>>, <<8364>>, 1))>>

BrokenChars == <<PalEntry>>

\* directories in which something does not decode or is not there, and whole
\* ones of the other tiers and header
BrokenDirectories ==
    {[players_dir |-> FALSE, level |-> LevelFile(TierZlib, FALSE, BrokenGroups, BrokenChars),
      players |-> <<>>]}
    \cup {Directory(l, <<PlayerFile(1)>>) :
             l \in {GarbageFile, EmptyFile,
                    LevelFile(51, FALSE, BrokenGroups, BrokenChars),
                    LevelFileWithout("GroupSaveDataMap"),
                    LevelFileWithout("CharacterSaveParameterMap"),
                    LevelFile(TierZlib, FALSE, BrokenGroups,
                              <<PalEntry, [CharacterEntry(1) EXCEPT
                                              !.key.InstanceId = Absent]>>),
                    LevelFile(TierStored, TRUE, BrokenGroups, BrokenChars),
                    LevelFile(TierZlibTwice, TRUE, BrokenGroups, BrokenChars)}}
    \cup {Directory(LevelFile(TierZlib, FALSE, BrokenGroups, c), p) :
             c \in {BrokenChars, <<CharacterEntry(1)>>},
             p \in {<<GarbageFile>>, <<PlayerFile(1), GarbageFile>>,
                    <<MalformedPlayerFile>>, <<PlayerFile(1), MalformedPlayerFile>>,
                    <<PlayerFile(1), PlayerFile(1)>>}}

Directories == WholeDirectories \cup BrokenDirectories

(***************************************************************************)
(* The state machine.  A run takes one input through an operation and then *)
(* through its inverse, as the repository's tests do: scenario names the   *)
(* input's kind, input holds it, mid the first operation's result and       *)
(* output the second's.  overflow_checks is the build's setting.           *)
(***************************************************************************)
NoValue == <<"none">>

InputsOf(s) ==
    CASE s = "uuid_bytes" -> Uuids
      [] s = "uuid" -> Uuids
      [] s = "fstring" -> Strings
      [] s = "fstring_bytes" -> StringWires
      [] s = "guild" -> GuildSaves
      [] s = "guild_bytes" -> GuildBlobs \cup ShortGuildBlobs
      [] s = "character" -> {[header |-> h, record |-> c] :
                                h \in Headers, c \in CharacterSaveParameters}
      [] s = "character_bytes" -> CharacterBlobs
      [] s = "pal_save" -> PalSaves
      [] s = "container_bytes" -> Containers
      [] s = "main" -> Directories

Scenarios ==
    {"uuid_bytes", "uuid", "fstring", "fstring_bytes", "guild", "guild_bytes",
     "character", "character_bytes", "pal_save", "container_bytes", "main"}

Init ==
    /\ scenario \in Scenarios
    /\ input \in InputsOf(scenario)
    /\ overflow_checks \in BOOLEAN
    /\ pc = IF scenario = "main" THEN "read_dir" ELSE "start"
    /\ mid = NoValue
    /\ output = NoValue
    /\ disk = IF scenario = "main" THEN input.level ELSE NoValue
    /\ opened = FALSE
    /\ outcome = "running"
    /\ level_save = NoValue
    /\ player_saves = NoValue
    /\ groups = NoValue
    /\ character_save_parameter_map = NoValue
    /\ player_individual_ids = NoValue
    /\ player_without_character_save = NoValue
    /\ new_character_saves = NoValue

\* the first operation of a run
First(s, result) ==
    /\ scenario = s
    /\ pc = "start"
    /\ mid' = result
    /\ pc' = "half"
    /\ UNCHANGED <<scenario, input, output, overflow_checks, main_vars>>

\* the inverse operation, run on what the first produced; there is none to
\* run when the first operation failed
SecondOf(s) ==
    /\ scenario = s
    /\ pc = "half"
    /\ s \in {"uuid_bytes", "fstring_bytes", "guild_bytes", "character_bytes",
              "pal_save", "container_bytes"} => mid.ok

Second(s, result) ==
    /\ SecondOf(s)
    /\ output' = result
    /\ pc' = "done"
    /\ UNCHANGED <<scenario, input, mid, overflow_checks, main_vars>>

ReadUuid ==
    \/ First("uuid_bytes", read_uuid(input))
    \/ Second("uuid", read_uuid(mid))

WriteUuid ==
    \/ First("uuid", write_uuid(input))
    \/ Second("uuid_bytes", write_uuid(mid.val))

ReadFString ==
    \/ First("fstring_bytes", read_fstring(input, overflow_checks))
    \/ Second("fstring", read_fstring(mid, overflow_checks))

WriteFString ==
    \/ First("fstring", write_fstring(input))
    \/ Second("fstring_bytes", write_fstring(mid.val))

ReadGroupGuildSave ==
    \/ First("guild_bytes", read_group_guild_save(input, overflow_checks))
    \/ Second("guild", read_group_guild_save(mid, overflow_checks))

WriteGroupGuildSave ==
    \/ First("guild", write_group_guild_save(input))
    \/ Second("guild_bytes", write_group_guild_save(mid.val))

ReadRawCharacterSaveParameter ==
    \/ First("character_bytes",
             read_raw_character_save_parameter(input.header, input.bytes))
    \/ Second("character", read_raw_character_save_parameter(input.header, mid))

WriteRawCharacterSaveParameter ==
    \/ First("character", write_raw_character_save_parameter(input.header, input.record))
    \/ Second("character_bytes",
                        write_raw_character_save_parameter(input.header, mid.val))

ReadSaveFile ==
    \/ First("container_bytes", read_save_file(input))
    \/ Second("pal_save", read_save_file(mid.val))

WriteSaveFile ==
    \/ First("pal_save", write_save_file(input))
    \/ Second("container_bytes", write_save_file(mid.val))

\* main is at the step named and has not ended
AtStep(step) == scenario = "main" /\ pc = step /\ outcome = "running"

\* what no step of main changes
Fixed == <<scenario, input, mid, output, overflow_checks>>

\* the run ends at the step it is at, with an error returned or a panic
EndsWith(r) == outcome' = r /\ UNCHANGED <<pc, Fixed, disk, opened, main_locals>>

\* step 1, the list of player saves: read_dir(..).expect(..)
ListPlayerSaves ==
    /\ AtStep("read_dir")
    /\ IF input.players_dir
       THEN pc' = "read_level" /\ UNCHANGED <<Fixed, main_vars>>
       ELSE EndsWith("Panic")

\* step 1: read_save_file(File::open(&level_sav_path)?)?
ReadLevelSav ==
    /\ AtStep("read_level")
    /\ IF read_file(disk).ok
       THEN /\ level_save' = read_file(disk).val
            /\ pc' = "read_players"
            /\ UNCHANGED <<Fixed, disk, opened, outcome, player_saves, groups,
                           character_save_parameter_map, player_individual_ids,
                           player_without_character_save, new_character_saves>>
       ELSE EndsWith("Err")

\* step 1: every player save read, the first error returned
ReadPlayerSaves ==
    /\ AtStep("read_players")
    /\ IF \A k \in 1..Len(input.players) : read_file(input.players[k]).ok
       THEN /\ player_saves' = [k \in 1..Len(input.players) |->
                                   read_file(input.players[k]).val]
            /\ pc' = "parse_guilds"
            /\ UNCHANGED <<Fixed, disk, opened, outcome, level_save, groups,
                           character_save_parameter_map, player_individual_ids,
                           player_without_character_save, new_character_saves>>
       ELSE EndsWith("Err")

\* step 2: the guild records parsed; a map that is not there and a record that
\* does not parse are unwrapped
ParseGuilds ==
    /\ AtStep("parse_guilds")
    /\ IF /\ Has(level_save, "GroupSaveDataMap")
          /\ \A k \in 1..Len(GuildEntries(level_save)) :
                ParsedGroups(level_save, overflow_checks)[k].parsed.ok
       THEN /\ groups' = [k \in 1..Len(GuildEntries(level_save)) |->
                             [guild_id |-> GuildEntries(level_save)[k].key,
                              group |-> ParsedGroups(level_save, overflow_checks)[k]
                                            .parsed.val]]
            /\ pc' = "parse_characters"
            /\ UNCHANGED <<Fixed, disk, opened, outcome, level_save, player_saves,
                           character_save_parameter_map, player_individual_ids,
                           player_without_character_save, new_character_saves>>
       ELSE EndsWith("Panic")

\* step 3: the instance ids of the keys of CharacterSaveParameterMap
ParseCharacterSaveParameterMap ==
    /\ AtStep("parse_characters")
    /\ IF /\ Has(level_save, "CharacterSaveParameterMap")
          /\ \A k \in 1..Len(get_character_save_parameter_map(level_save)) :
                get_character_save_parameter_map(level_save)[k].key.InstanceId # Absent
       THEN /\ character_save_parameter_map' = CharacterInstanceIds(level_save)
            /\ pc' = "parse_ids"
            /\ UNCHANGED <<Fixed, disk, opened, outcome, level_save, player_saves, groups,
                           player_individual_ids, player_without_character_save,
                           new_character_saves>>
       ELSE EndsWith("Panic")

\* step 4: the individual id of every player save
ParsePlayerIndividualIds ==
    /\ AtStep("parse_ids")
    /\ IF \A k \in 1..Len(player_saves) : Has(player_saves[k], "SaveData")
       THEN /\ player_individual_ids' =
                    [k \in 1..Len(player_saves) |-> IndividualId(player_saves[k])]
            /\ pc' = "check"
            /\ UNCHANGED <<Fixed, disk, opened, outcome, level_save, player_saves, groups,
                           character_save_parameter_map, player_without_character_save,
                           new_character_saves>>
       ELSE EndsWith("Panic")

\* a plausible slip: step 5 without its return
CheckPlayersWithoutCharacterSave_no_return ==
    /\ AtStep("check")
    /\ player_without_character_save' =
            WithoutCharacterSave(player_individual_ids, character_save_parameter_map)
    /\ pc' = "create_new"
    /\ UNCHANGED <<Fixed, disk, opened, outcome, level_save, player_saves, groups,
                   character_save_parameter_map, player_individual_ids,
                   new_character_saves>>

\* step 5: the players without a character save; with none of them main
\* returns Ok(())
CheckPlayersWithoutCharacterSave ==
    /\ AtStep("check")
    /\ player_without_character_save' =
            WithoutCharacterSave(player_individual_ids, character_save_parameter_map)
    /\ IF WithoutCharacterSave(player_individual_ids, character_save_parameter_map) = <<>>
       THEN pc' = "exit" /\ outcome' = "Ok"
       ELSE pc' = "create_new" /\ UNCHANGED outcome
    /\ UNCHANGED <<Fixed, disk, opened, level_save, player_saves, groups,
                   character_save_parameter_map, player_individual_ids,
                   new_character_saves>>

\* a plausible slip: Level.sav created before the new records are built
CreateNewCharacterSaves_file_created_first ==
    /\ AtStep("create_new")
    /\ disk' = EmptyFile
    /\ opened' = TRUE
    /\ IF \A j \in 1..Len(player_without_character_save) :
             FindGroup(groups, player_without_character_save[j].player_uid) # 0
       THEN /\ new_character_saves' =
                    [j \in 1..Len(player_without_character_save) |->
                        NewCharacterSave(level_save.save.header, groups,
                            FindGroup(groups, player_without_character_save[j].player_uid),
                            player_without_character_save[j])]
            /\ pc' = "append"
            /\ UNCHANGED <<Fixed, outcome, level_save, player_saves, groups,
                           character_save_parameter_map, player_individual_ids,
                           player_without_character_save>>
       ELSE /\ outcome' = "Panic"
            /\ UNCHANGED <<pc, Fixed, main_locals>>

\* step 6: a character save for each of them, from the first guild that has
\* the player as a member; the find_map is unwrapped
CreateNewCharacterSaves ==
    /\ AtStep("create_new")
    /\ IF \A j \in 1..Len(player_without_character_save) :
             FindGroup(groups, player_without_character_save[j].player_uid) # 0
       THEN /\ new_character_saves' =
                    [j \in 1..Len(player_without_character_save) |->
                        NewCharacterSave(level_save.save.header, groups,
                            FindGroup(groups, player_without_character_save[j].player_uid),
                            player_without_character_save[j])]
            /\ pc' = "append"
            /\ UNCHANGED <<Fixed, disk, opened, outcome, level_save, player_saves, groups,
                           character_save_parameter_map, player_individual_ids,
                           player_without_character_save>>
       ELSE EndsWith("Panic")

\* step 7: get_character_save_parameter_map_mut(..).extend(new_character_saves)
AppendNewCharacterSaves ==
    /\ AtStep("append")
    /\ level_save' =
            [level_save EXCEPT !.save.root.CharacterSaveParameterMap =
                extend(@, new_character_saves)]
    /\ pc' = "create_file"
    /\ UNCHANGED <<Fixed, disk, opened, outcome, player_saves, groups,
                   character_save_parameter_map, player_individual_ids,
                   player_without_character_save, new_character_saves>>

\* step 8: File::create(level_sav_path)?, which empties the file, or fails
CreateLevelSavFile ==
    /\ AtStep("create_file")
    /\ \/ /\ disk' = EmptyFile
          /\ opened' = TRUE
          /\ pc' = "write_file"
          /\ UNCHANGED <<Fixed, outcome, main_locals>>
       \/ EndsWith("Err")

\* step 8: write_save_file(&mut level_sav_writer, &level_save)?, or the write fails
WriteLevelSav ==
    /\ AtStep("write_file")
    /\ \/ /\ disk' = write_file(level_save)
          /\ pc' = "exit"
          /\ outcome' = "Ok"
          /\ UNCHANGED <<Fixed, opened, main_locals>>
       \/ EndsWith("Err")

Next ==
    \/ ListPlayerSaves
    \/ ReadLevelSav
    \/ ReadPlayerSaves
    \/ ParseGuilds
    \/ ParseCharacterSaveParameterMap
    \/ ParsePlayerIndividualIds
    \/ CheckPlayersWithoutCharacterSave
    \/ CreateNewCharacterSaves
    \/ AppendNewCharacterSaves
    \/ CreateLevelSavFile
    \/ WriteLevelSav
    \/ ReadUuid
    \/ WriteUuid
    \/ ReadFString
    \/ WriteFString
    \/ ReadGroupGuildSave
    \/ WriteGroupGuildSave
    \/ ReadRawCharacterSaveParameter
    \/ WriteRawCharacterSaveParameter
    \/ ReadSaveFile
    \/ WriteSaveFile

Spec == Init /\ [][Next]_vars

(***************************************************************************)
(* Properties.                                                             *)
(***************************************************************************)
Ran(s) == scenario = s /\ pc \in {"half", "done"}

Finished(s) == scenario = s /\ pc = "done"

IsInvolution(p) == \A k \in 1..16 : p[p[k]] = k

\* C1: write_uuid(read_uuid(b)) = b for every 16 bytes b, read_uuid(write_uuid(u)) = u
\* for every Uuid u: both apply the same permutation, which is an involution.
C1_UuidRoundTrip ==
    /\ Finished("uuid_bytes") => output = input
    /\ Finished("uuid") => output = Done(input, <<>>)
    /\ UuidPermWrite = UuidPerm
    /\ IsInvolution(UuidPerm)

C1_Witness == Finished("uuid_bytes") /\ input = UuidOf(1) /\ mid.val # input

\* C2: reading what write_group_guild_save wrote for a record g succeeds, consumes
\* every byte and yields g, whatever its strings and array lengths.
C2_GuildWriteRead ==
    Finished("guild") => output = Done(input, <<>>)

C2_Witness ==
    /\ Finished("guild")
    /\ input.MayBeOwner = <<233, 128512>>
    /\ input.GuildName = <<>>
    /\ Len(input.GuildPlayerInfo) = 1

\* C3: writing back a guild record decoded from a blob reproduces the blob byte
\* for byte, for string prefixes 0, positive and negative alike.
C3_GuildReadWriteIdentical ==
    Finished("guild_bytes") => output = input

\* the code's behaviour on the strings of a blob: only strings in the form
\* write_fstring itself produces come back byte for byte
C3_CanonicalStringsOnly ==
    Finished("fstring_bytes") => (output = input <=> input = write_fstring(mid.val))

\* C7: write_fstring("") is the four bytes 00 00 00 00, which read_fstring reads as "".
C7_EmptyStringFourZeroBytes ==
    /\ (Ran("fstring") /\ input = <<>>) => mid = <<0, 0, 0, 0>>
    /\ read_fstring(<<0, 0, 0, 0>>, overflow_checks) = Done(<<>>, <<>>)

HasMultiByteChar(s) == \E k \in 1..Len(s) : s[k] >= 128

RECURSIVE Utf16Units(_)
Utf16Units(s) == IF s = <<>> THEN 0 ELSE len_utf16(Head(s)) + Utf16Units(Tail(s))

\* C6: read_fstring(write_fstring(s)) = s with nothing left over; the unicode
\* branch (negative prefix, 2-byte units, 2-byte terminator) is taken exactly when
\* s has a multi-byte character, the non-unicode one (positive prefix, 1-byte
\* units, 1-byte terminator) otherwise; the prefix's absolute value is the
\* number of code units written plus one.
C6_FStringWriteRead ==
    /\ Finished("fstring") => output = Done(input, <<>>)
    /\ Ran("fstring") =>
          LET prefix == FromLe(mid)
          IN  IF HasMultiByteChar(input)
              THEN /\ prefix < 0
                   /\ Len(mid) = 4 + 2 * Utf16Units(input) + 2
                   /\ SubSeq(mid, Len(mid) - 1, Len(mid)) = <<0, 0>>
                   /\ -prefix = (Len(mid) - 6) \div 2 + 1
              ELSE /\ prefix > 0
                   /\ Len(mid) = 4 + Len(input) + 1
                   /\ mid[Len(mid)] = 0
                   /\ prefix = (Len(mid) - 5) + 1

C6_Witness == Finished("fstring") /\ input = <<65, 128512>> /\ FromLe(mid) = -4

\* the guild record's fields with their wire encodings, by name
FieldBytes(g, f) ==
    CASE f = "UnknownUuid" -> write_uuid(g.UnknownUuid)
      [] f = "MayBeOwner" -> write_fstring(g.MayBeOwner)
      [] f = "InstanceIds" -> write_tarray(g.InstanceIds, "FPalInstanceId")
      [] f = "unknown" -> <<g.unknown>>
      [] f = "UnknownGuid" -> write_tarray(g.UnknownGuid, "Uuid")
      [] f = "UnknownGuid2" -> write_tarray(g.UnknownGuid2, "Uuid")
      [] f = "BaseCampLevel" -> to_le_bytes32(g.BaseCampLevel)
      [] f = "GuildName" -> write_fstring(g.GuildName)
      [] f = "AdminPlayerUId" -> write_uuid(g.AdminPlayerUId)
      [] f = "GuildPlayerInfo" ->
            write_tarray(g.GuildPlayerInfo, "FPalGuildPlayerInfo")

Layout(g, order) == Flatten([k \in 1..Len(order) |-> FieldBytes(g, order[k])])

\* the order the claim states: both identifier arrays, then the level
ClaimedOrder ==
    <<"UnknownUuid", "MayBeOwner", "InstanceIds", "unknown", "UnknownGuid",
      "UnknownGuid2", "BaseCampLevel", "GuildName", "AdminPlayerUId", "GuildPlayerInfo">>

\* the order on the wire: the level stands between the two identifier arrays
WireOrder ==
    <<"UnknownUuid", "MayBeOwner", "InstanceIds", "unknown", "UnknownGuid",
      "BaseCampLevel", "UnknownGuid2", "GuildName", "AdminPlayerUId", "GuildPlayerInfo">>

FieldOrderIs(order) ==
    Ran("guild") =>
        /\ mid = Layout(input, order)
        /\ read_group_guild_save(Layout(input, order), overflow_checks) = Done(input, <<>>)

\* C8 as stated: reader and writer take the fields in the order identifier, owner
\* string, instance ids, reserved byte, the two identifier arrays, then the
\* level, guild name, admin id, player infos.
C8_ClaimedFieldOrder == FieldOrderIs(ClaimedOrder)

\* C8, amended: reader and writer take the fields in one and the same order:
\* identifier, owner string, instance ids, reserved byte, first identifier array,
\* level, second identifier array, guild name, admin id, player infos.
C8_FieldOrder == FieldOrderIs(WireOrder)

C8_Witness ==
    /\ Ran("guild")
    /\ Len(input.UnknownGuid) = 1
    /\ Len(input.UnknownGuid2) = 2
    /\ input.BaseCampLevel = -1
    /\ mid # Layout(input, ClaimedOrder)

\* the containers in the form write_save_file gives them: both length fields as
\* the writer computes them, every deflate stream at the writer's level and
\* ending the payload
WriterFormOf(sv) ==
    LET raw == SaveWrite(sv)
        z1  == ZlibEncodeFinished(raw)
        z2  == ZlibEncodeFinished(z1)
    IN  { MkContainer(Len(raw), Len(raw), PLZ_MAGIC, TierStored, raw),
          MkContainer(Len(raw), Len(z1), PLZ_MAGIC, TierZlib, z1),
          MkContainer(Len(raw), Len(z1), PLZ_MAGIC, TierZlibTwice, z2) }

\* c is what the writer gives the save that c decodes to
InWriterForm(c) ==
    LET r == read_save_file(c)
    IN  r.ok /\ c \in WriterFormOf(r.val.save)

\* C4 as stated: every container read_save_file decodes is written back byte for
\* byte by write_save_file, tier byte, length fields, magic and payload.
C4_ContainerReadWriteIdentical ==
    Finished("container_bytes") => output = Done(input, <<>>)

\* C4, amended: write_save_file succeeds on every decoded container, emits the
\* tier byte it was read with and a container that decodes to the same PalSave;
\* the output is byte-identical to the input when the input has the form the
\* writer gives a container.  The length fields are not read back and a payload
\* deflated otherwise or followed by more bytes is not reproduced.
C4_ContainerReadWrite ==
    /\ (Ran("container_bytes") /\ mid.ok) => write_save_file(mid.val).ok
    /\ Finished("container_bytes") =>
          /\ output.ok
          /\ output.val[12] = input[12]
          /\ SubSeq(output.val, 9, 11) = PLZ_MAGIC
          /\ read_save_file(output.val) = mid
          /\ InWriterForm(output.val)
          /\ InWriterForm(input) => output.val = input

C4_Witness ==
    /\ Finished("container_bytes")
    /\ input[12] = TierZlibTwice
    /\ InWriterForm(input)
    /\ Len(mid.val.save.root) = 2
    /\ mid.val.save.extra # <<>>

RECURSIVE InflateTimes(_, _)
InflateTimes(z, n) ==
    IF n = 0 THEN [ok |-> TRUE, data |-> z]
    ELSE LET d == ZlibDecode(z)
         IN  IF d.ok THEN InflateTimes(d.data, n - 1) ELSE d

\* a zlib stream that has its end: length byte, data, checksum, nothing more
IsCompleteStream(z) ==
    /\ Len(z) >= 4
    /\ z[1] = ZlibCmf
    /\ z[2] \in ZlibFlags
    /\ Len(z) = z[3] + 4
    /\ z[Len(z)] = Adler(SubSeq(z, 4, Len(z) - 1))

ValidTier(t) == t \in {TierStored, TierZlib, TierZlibTwice}

\* C5: for a PalSave p of tier 0x30, 0x31 or 0x32, write_save_file succeeds and
\* read_save_file of what it wrote returns p; the payload written is the
\* serialized tree deflated 0, 1 or 2 times, as many times as the reader
\* inflates it, and the outer stream of tier 0x32 is complete.
C5_SaveWriteRead ==
    /\ (Ran("pal_save") /\ ValidTier(input.compression_type)) =>
          /\ mid.ok
          /\ mid.val[12] = input.compression_type
          /\ LET payload == Drop(mid.val, 12)
                 passes  == input.compression_type - TierStored
             IN  /\ InflateTimes(payload, passes) =
                        [ok |-> TRUE, data |-> SaveWrite(input.save)]
                 /\ passes >= 1 => IsCompleteStream(payload)
                 /\ passes = 2 => IsCompleteStream(ZlibDecode(payload).data)
                 /\ ReadPayload(input.compression_type, payload) =
                        InflateTimes(payload, passes)
    /\ (Finished("pal_save") /\ ValidTier(input.compression_type)) =>
          output = Done(input, <<>>)

C5_Witness ==
    /\ Finished("pal_save")
    /\ input.compression_type = TierZlibTwice
    /\ input.save.root # <<>>
    /\ output.ok

\* where the reserved word of a character blob starts: after the property list
ReservedAt(header, bytes) ==
    Len(bytes) - Len(read_properties_until_none(header, bytes).rest) + 1

WithReserved(header, bytes, r) ==
    LET at == ReservedAt(header, bytes)
    IN  Take(bytes, at - 1) \o r \o Drop(bytes, at + 3)

\* C9: the writer always puts four zero bytes between the property list and the
\* 16-byte group id, and the reader returns equal records for blobs that differ
\* in those four bytes only.
C9_ReservedZeroAndIgnored ==
    /\ Ran("character") =>
          /\ Len(mid) = Len(write_properties_none_terminated(input.header,
                                                             input.record.properties)) + 20
          /\ SubSeq(mid, Len(mid) - 19, Len(mid) - 16) = <<0, 0, 0, 0>>
    /\ (Ran("character_bytes") /\ mid.ok) =>
          \A r \in ReservedWires :
             read_raw_character_save_parameter(
                 input.header, WithReserved(input.header, input.bytes, r)) = mid
    /\ Finished("character_bytes") =>
          SubSeq(output, ReservedAt(input.header, input.bytes),
                 ReservedAt(input.header, input.bytes) + 3) = <<0, 0, 0, 0>>

C9_Witness ==
    /\ Ran("character_bytes")
    /\ mid.ok
    /\ SubSeq(input.bytes, ReservedAt(input.header, input.bytes),
              ReservedAt(input.header, input.bytes) + 3) = <<255, 255, 255, 255>>
    /\ mid.val.properties # <<>>

\* C10 as stated: writing back the record decoded from a character blob, under
\* the same header, reproduces the blob byte for byte.
C10_CharacterReadWriteIdentical ==
    Finished("character_bytes") => output = input.bytes

\* C10, amended: the bytes written back are the blob's property list, four zero
\* bytes and the blob's 16 group id bytes: byte-identical to the blob exactly
\* when its reserved word is zero and nothing follows its group id.
C10_CharacterReadWrite ==
    Finished("character_bytes") =>
        LET at == ReservedAt(input.header, input.bytes)
        IN  /\ output = Take(input.bytes, at - 1) \o <<0, 0, 0, 0>>
                        \o SubSeq(input.bytes, at + 4, at + 19)
            /\ output = input.bytes <=>
                  /\ SubSeq(input.bytes, at, at + 3) = <<0, 0, 0, 0>>
                  /\ Len(input.bytes) = at + 19

C10_Witness ==
    /\ Finished("character_bytes")
    /\ output = input.bytes
    /\ input.header.large_world_coordinates
    /\ Len(mid.val.properties) = 2

(***************************************************************************)
(* Rejection of a container by its magic and by its tier byte.             *)
(***************************************************************************)
MagicOf(c) == SubSeq(c, 9, 11)

HasMagic(c) == Len(c) >= 11

HasTierByte(c) == Len(c) >= 12

\* the payload of c is one some tier would decode
PayloadDecodes(c) ==
    \E t \in {TierStored, TierZlib} :
        LET inner == ReadPayload(t, Drop(c, 12))
        IN  inner.ok /\ SaveRead(inner.data).ok

\* C11: read_save_file fails with "Invalid magic" on every input whose bytes
\* 9..11 are not 'PlZ', whatever the tier byte and the payload are and whether
\* or not there is a tier byte; it fails with "Invalid compression method" on
\* every input with the magic whose tier byte is not 0x30, 0x31 or 0x32,
\* whatever the payload is.  Neither returns a PalSave.
C11_MagicAndTierRejected ==
    Ran("container_bytes") =>
        /\ HasMagic(input) /\ MagicOf(input) # PLZ_MAGIC => mid = Fail("Invalid magic")
        /\ HasTierByte(input) /\ MagicOf(input) = PLZ_MAGIC
              /\ input[12] \notin {TierStored, TierZlib, TierZlibTwice}
           => mid = Fail("Invalid compression method")

\* a container with another magic, an unknown tier byte and a payload that a
\* known tier would have decoded has been read
C11_Witness ==
    /\ Ran("container_bytes")
    /\ HasTierByte(input)
    /\ MagicOf(input) # PLZ_MAGIC
    /\ input[12] \notin {TierStored, TierZlib, TierZlibTwice}
    /\ PayloadDecodes(input)
    /\ mid = Fail("Invalid magic")

(***************************************************************************)
(* The length fields write_save_file emits.                                *)
(***************************************************************************)
DecompressedLengthField(c) == FromLe(SubSeq(c, 1, 4))

CompressedLengthField(c) == FromLe(SubSeq(c, 5, 8))

PayloadOf(c) == Drop(c, 12)

PayloadShort(c) == HasTierByte(c) /\ Len(PayloadOf(c)) < CompressedLengthField(c)

\* C13 as stated: read_save_file returns an error, neither a PalSave nor an
\* abort, for every container whose payload is shorter than compressed_length
\* states.
C13_TruncatedRejected ==
    (Ran("container_bytes") /\ PayloadShort(input)) => (~mid.ok /\ mid.err # "Panic")

(***************************************************************************)
(* Guild records that cannot be fully read.                                *)
(***************************************************************************)
\* C14 as stated: read_group_guild_save returns an error, neither a record nor
\* an abort, for every proper prefix of an encoding, every array count above
\* the elements present and every string length prefix, -2^31 included, that
\* demands more bytes than remain.
C14_ShortRecordIsError ==
    (Ran("guild_bytes") /\ input \in ShortGuildBlobs) => (~mid.ok /\ mid.err # "Panic")

(***************************************************************************)
(* main: what a directory lets each step do, told from the directory       *)
(* alone.                                                                  *)
(***************************************************************************)
\* Level.sav as it was when main started, decoded
OriginalLevel == read_file(input.level).val

OriginalCharacterMap == OriginalLevel.save.root.CharacterSaveParameterMap

\* the guild-type entries of the original GroupSaveDataMap, in its order
OriginalGuildEntries ==
    SelectSeq(OriginalLevel.save.root.GroupSaveDataMap,
              LAMBDA e : e.GroupType = "EPalGroupType::Guild")

\* their records as read_group_guild_save returns them
OriginalGuilds ==
    [k \in 1..Len(OriginalGuildEntries) |->
        read_group_guild_save(OriginalGuildEntries[k].RawData, overflow_checks)]

\* the guild gs[k] has a member with this uid
GuildHasMember(gs, k, uid) ==
    \E j \in 1..Len(gs[k].val.GuildPlayerInfo) :
        gs[k].val.GuildPlayerInfo[j].PlayerUId = uid

\* the ids of the k-th player save
PlayerIds(k) == read_file(input.players[k]).val.save.root.SaveData.IndividualId

FilesRead ==
    /\ input.players_dir
    /\ read_file(input.level).ok
    /\ \A k \in 1..Len(input.players) : read_file(input.players[k]).ok

GuildsDecodeAs(gs) ==
    /\ "GroupSaveDataMap" \in OriginalLevel.save.root.members
    /\ \A k \in 1..Len(gs) : gs[k].ok

GuildsDecode == GuildsDecodeAs(OriginalGuilds)

KeysAndIdsExtract ==
    /\ "CharacterSaveParameterMap" \in OriginalLevel.save.root.members
    /\ \A k \in 1..Len(OriginalCharacterMap) :
          OriginalCharacterMap[k].key.InstanceId # Absent
    /\ \A k \in 1..Len(input.players) :
          "SaveData" \in read_file(input.players[k]).val.save.root.members

\* the k-th player save's instance id is a key of the original map
IsPresent(k) ==
    \E e \in 1..Len(OriginalCharacterMap) :
        OriginalCharacterMap[e].key.InstanceId = PlayerIds(k).InstanceId

\* the player saves, by position, whose instance id is no key of the map
MissingPlayers == {k \in 1..Len(input.players) : ~IsPresent(k)}

NewRecordsBuildFrom(gs) ==
    \A k \in MissingPlayers :
        \E g \in 1..Len(gs) : GuildHasMember(gs, g, PlayerIds(k).PlayerUId)

NewRecordsBuild == NewRecordsBuildFrom(OriginalGuilds)

\* the steps after the files are read succeed, gs being the guild records
DecodeStepsSucceed(gs) ==
    GuildsDecodeAs(gs) /\ KeysAndIdsExtract /\ NewRecordsBuildFrom(gs)

\* every read and decode step of a run on this directory succeeds
EveryStepSucceeds == FilesRead /\ DecodeStepsSucceed(OriginalGuilds)

\* the run is over
Ended == outcome # "running"

\* the steps before File::create
ReadAndDecodeSteps ==
    {"read_dir", "read_level", "read_players", "parse_guilds", "parse_characters",
     "parse_ids", "check", "create_new", "append"}

\* C15: up to and including step 7 Level.sav is not created and holds what it
\* held; main gets past step 7, or returns at step 5, only on a directory all
\* of whose read and decode steps succeed (Level.sav and every player save
\* read, every guild record parsed, every key and individual id extracted,
\* every new record built); a run that ends before is one on a directory
\* where a step fails, and it ends with an error or a panic.  So a run in
\* which any of those steps fails leaves Level.sav as it was.
C15_WriteOnlyAfterDecodes ==
    scenario = "main" =>
        /\ pc \in ReadAndDecodeSteps => (~opened /\ disk = input.level)
        /\ pc \notin ReadAndDecodeSteps => EveryStepSucceeds
        /\ opened => pc \notin ReadAndDecodeSteps
        /\ (Ended /\ pc \in ReadAndDecodeSteps) =>
              (~EveryStepSucceeds /\ outcome \in {"Err", "Panic"})

\* a run panicked while building the new records, all earlier steps done: the
\* player is in no guild, and Level.sav is as it was
C15_Witness ==
    /\ scenario = "main"
    /\ pc = "create_new"
    /\ outcome = "Panic"
    /\ FilesRead /\ GuildsDecode /\ KeysAndIdsExtract
    /\ ~NewRecordsBuild
    /\ ~opened
    /\ disk = input.level

(***************************************************************************)
(* main: the map written.                                                  *)
(***************************************************************************)
WrittenCharacterMap == disk.save.root.CharacterSaveParameterMap

\* the missing players in player-save order: the j-th of them
RECURSIVE MissingInOrder(_)
MissingInOrder(n) ==
    IF n = 0 THEN <<>>
    ELSE MissingInOrder(n - 1) \o (IF n \in MissingPlayers THEN <<n>> ELSE <<>>)

\* entry e is the character save of player save k: the player's ids in its
\* key, and a record with the id of the first guild that has the player as a
\* member and the name of the first such member
IsNewEntryOf(gs, e, k) ==
    LET c == read_raw_character_save_parameter(disk.save.header, e.RawData)
    IN  /\ e.key.PlayerUId = PlayerIds(k).PlayerUId
        /\ e.key.InstanceId = PlayerIds(k).InstanceId
        /\ c.ok
        /\ c.rest = <<>>
        /\ \E g \in 1..Len(gs) :
              /\ GuildHasMember(gs, g, PlayerIds(k).PlayerUId)
              /\ \A h \in 1..(g - 1) : ~GuildHasMember(gs, h, PlayerIds(k).PlayerUId)
              /\ c.val.group_id = OriginalGuildEntries[g].key
              /\ \E j \in 1..Len(gs[g].val.GuildPlayerInfo) :
                    /\ gs[g].val.GuildPlayerInfo[j].PlayerUId = PlayerIds(k).PlayerUId
                    /\ \A i \in 1..(j - 1) :
                          gs[g].val.GuildPlayerInfo[i].PlayerUId # PlayerIds(k).PlayerUId
                    /\ c.val.properties =
                          <<[name |-> NickNameProperty,
                             value |-> gs[g].val.GuildPlayerInfo[j].PlayerName]>>

\* main returned Ok(()) after writing Level.sav
Wrote == scenario = "main" /\ outcome = "Ok" /\ opened

\* C16: after a run that wrote Level.sav, its CharacterSaveParameterMap is the
\* original entries in their order, then one entry per player save whose
\* instance id was no key, in player-save order, each with that player's ids,
\* the id of the first guild that has the player as a member and that member's
\* name; every player save's instance id is then a key; the rest of the save
\* is as it was.
C16_MapWritten ==
    Wrote =>
        LET missing == MissingInOrder(Len(input.players))
            n       == Len(OriginalCharacterMap)
        IN  /\ disk.kind = "container"
            /\ Len(WrittenCharacterMap) = n + Len(missing)
            /\ SubSeq(WrittenCharacterMap, 1, n) = OriginalCharacterMap
            /\ \A j \in 1..Len(missing) :
                  IsNewEntryOf(OriginalGuilds, WrittenCharacterMap[n + j], missing[j])
            /\ \A k \in 1..Len(input.players) :
                  \E e \in 1..Len(WrittenCharacterMap) :
                      WrittenCharacterMap[e].key.InstanceId = PlayerIds(k).InstanceId
            /\ disk.compression_type = OriginalLevel.compression_type
            /\ disk.save.header = OriginalLevel.save.header
            /\ disk.save.root.GroupSaveDataMap = OriginalLevel.save.root.GroupSaveDataMap

\* a run wrote the map for two player saves without a character save, the map
\* having entries before, the first player a member of two guilds
C16_Witness ==
    /\ Wrote
    /\ Len(OriginalCharacterMap) >= 1
    /\ Cardinality(MissingPlayers) = 2
    /\ PlayerIds(1).PlayerUId # PlayerIds(2).PlayerUId
    /\ Len(OriginalGuildEntries) = 2
    /\ GuildHasMember(OriginalGuilds, 1, PlayerIds(1).PlayerUId)
    /\ GuildHasMember(OriginalGuilds, 2, PlayerIds(1).PlayerUId)
    /\ OriginalGuildEntries[1].key # OriginalGuildEntries[2].key
    /\ Len(WrittenCharacterMap) = Len(OriginalCharacterMap) + 2

(***************************************************************************)
(* main on a save that needs nothing.                                      *)
(***************************************************************************)
\* every player save's instance id is a key of CharacterSaveParameterMap
AllPresent ==
    FilesRead /\ KeysAndIdsExtract /\ MissingPlayers = {}

\* C17 as stated: with every player save's instance id a key of the map, main
\* returns Ok(()) without creating Level.sav and without changing the save in
\* memory.
C17_AllPresentReturnsOk ==
    (scenario = "main" /\ AllPresent) =>
        /\ ~opened
        /\ disk = input.level
        /\ pc \notin {"read_dir", "read_level"} => level_save = OriginalLevel
        /\ Ended => outcome = "Ok"

\* C17, amended: with every player save's instance id a key of the map, main
\* never creates Level.sav and never changes the save in memory; it returns
\* Ok(()) at step 5 when GroupSaveDataMap is there and every guild record in it
\* parses, and panics at step 2 otherwise.
C17_AllPresentNoWrite ==
    (scenario = "main" /\ AllPresent) =>
        /\ ~opened
        /\ disk = input.level
        /\ pc \notin {"read_dir", "read_level"} => level_save = OriginalLevel
        /\ Ended =>
              IF GuildsDecode
              THEN outcome = "Ok" /\ pc = "exit"
              ELSE outcome = "Panic" /\ pc = "parse_guilds"

\* a run on two player saves that both have their character save returned
\* Ok(()) with Level.sav as it was
C17_Witness ==
    /\ scenario = "main"
    /\ AllPresent
    /\ Len(input.players) = 2
    /\ input.players[1] # input.players[2]
    /\ Len(OriginalGuildEntries) >= 1
    /\ outcome = "Ok"
    /\ pc = "exit"
    /\ ~opened
    /\ disk = input.level

====
